---- MODULE Spec2Model ----
(***************************************************************************)
(* dirdiff: the parallel directory comparison of src/src/main.rs.          *)
(*                                                                         *)
(* Two directory trees are compared by N workers.  Every worker owns a     *)
(* LIFO deque of work items (relative directory paths), steals from the    *)
(* other workers' deques when its own is empty, and counts itself out of   *)
(* the shared counter non_idle while it is looking for work.               *)
(*                                                                         *)
(* File names are modelled as small integers (their order is the byte      *)
(* order of the names), a relative path as a sequence of names, a          *)
(* directory as a function from the names it holds to its entries.         *)
(***************************************************************************)
EXTENDS Integers, Sequences, FiniteSets, Bags, TLC

\* ------------------------------------------------------------------ bounds

\* The largest number of worker threads (-j) the model runs.
MaxWorkers == 2

\* The depth of the deepest directory of the model's trees.
MaxDepth == 2

\* The capacity of a BufReader, scaled down from the 8 KiB of the standard
\* library so that the compare loop iterates on the model's short files.
BufCap == 2

\* The length of the longest file whose comparison is run byte by byte.
MaxLen == 3

\* The counter non_idle is an AtomicU16.
U16 == 65536

\* ------------------------------------------------------- the file system

Names == {1, 2}

File(d, m) == [k |-> "file", data |-> d, mtime |-> m, target |-> 0, sub |-> <<>>]
Link(t)    == [k |-> "link", data |-> <<>>, mtime |-> 0, target |-> t, sub |-> <<>>]
Other      == [k |-> "other", data |-> <<>>, mtime |-> 0, target |-> 0, sub |-> <<>>]
Dir(s)     == [k |-> "dir", data |-> <<>>, mtime |-> 0, target |-> 0, sub |-> s]

\* What a failed lookup returns.
NoEntry == [k |-> "none", data |-> <<>>, mtime |-> 0, target |-> 0, sub |-> <<>>]

EmptyDir == <<>>

\* canonicalize() of the entry n of directory d: the entry a chain of links
\* ends in (a link's target is the name of an entry of the same directory);
\* NoEntry when the chain dangles or loops.
RECURSIVE Canon(_, _, _)
Canon(d, n, fuel) ==
    IF n \notin DOMAIN d THEN NoEntry
    ELSE IF d[n].k # "link" THEN d[n]
    ELSE IF fuel = 0 THEN NoEntry
    ELSE Canon(d, d[n].target, fuel - 1)

Canonicalize(d, n) == Canon(d, n, Cardinality(DOMAIN d))

\* The directory a relative path names under a root, as read_dir() sees it
\* (the operating system follows links inside the path); NoEntry when the
\* path names no directory.
RECURSIVE Walk(_, _)
Walk(d, path) ==
    IF path = <<>> THEN Dir(d)
    ELSE LET e == Canonicalize(d, Head(path)) IN
         IF e.k = "dir" THEN Walk(e.sub, Tail(path)) ELSE NoEntry

\* ----------------------------------------------------------------- FileT

\* The flag ignored: a link is never followed.
FileT_new_NoFollow(d, n, follow_link) ==
    [name |-> n, file_type |-> d[n].k, node |-> d[n], panics |-> FALSE]

\* FileT::new: the entry n of directory d.  With follow_link a link is
\* replaced by its target: file_type is the target's type and node the
\* target, which path() and metadata() then refer to.  A link that cannot
\* be followed makes the unwrap() panic.
FileT_new(d, n, follow_link) ==
    IF follow_link /\ d[n].k = "link"
    THEN LET t == Canonicalize(d, n) IN
         [name |-> n, file_type |-> t.k, node |-> t, panics |-> (t = NoEntry)]
    ELSE [name |-> n, file_type |-> d[n].k, node |-> d[n], panics |-> FALSE]

\* A symbolic link ordered with the regular files.
file_type_order_LinkAsFile(ft) ==
    CASE ft = "dir" -> 0
      [] ft = "link" -> 2
      [] ft = "file" -> 2
      [] OTHER -> 3

\* Every type that is no directory and no link taken for a regular file.
file_type_order_OtherAsFile(ft) ==
    CASE ft = "dir" -> 0
      [] ft = "link" -> 1
      [] OTHER -> 2

file_type_order(ft) ==
    CASE ft = "dir" -> 0
      [] ft = "link" -> 1
      [] ft = "file" -> 2
      [] OTHER -> 3

\* The listings sorted and merged by name alone.
SortKey_NameOnly(e) == <<0, e.name>>

\* The sort key (file_type_order, filename) and its lexicographic order.
SortKey(e) == <<file_type_order(e.file_type), e.name>>

\* The order of the keys reversed: the greatest key first.
KeyLess_Reversed(k1, k2) == k1[1] > k2[1] \/ (k1[1] = k2[1] /\ k1[2] > k2[2])

KeyLess(k1, k2) == k1[1] < k2[1] \/ (k1[1] = k2[1] /\ k1[2] < k2[2])

\* sort_unstable_by_key: the keys of one listing are distinct (the names
\* are), so the sorted vector is unique.
RECURSIVE SortByKey(_)
SortByKey(S) ==
    IF S = {} THEN <<>>
    ELSE LET m == CHOOSE x \in S : \A y \in S \ {x} : KeyLess(SortKey(x), SortKey(y))
         IN <<m>> \o SortByKey(S \ {m})

\* read_dir(root/dir) collected into FileT values and sorted.
Listing(root, dir, follow_link) ==
    LET d == Walk(root, dir) IN
    IF d = NoEntry THEN [status |-> "err", content |-> <<>>]
    ELSE LET S == {FileT_new(d.sub, n, follow_link) : n \in DOMAIN d.sub} IN
         IF \E e \in S : e.panics THEN [status |-> "panic", content |-> <<>>]
         ELSE [status |-> "ok", content |-> SortByKey(S)]

\* ------------------------------------------------------------------ Diff

InDir1Only(dir, name) == [tag |-> "InDir1Only", dir |-> dir, name |-> name]
InDir2Only(dir, name) == [tag |-> "InDir2Only", dir |-> dir, name |-> name]
Different(dir, name)  == [tag |-> "Different", dir |-> dir, name |-> name]
SameButDifferentMTime(dir, name) ==
    [tag |-> "SameButDifferentMTime", dir |-> dir, name |-> name]

\* What process_path does, in the order it does it: a diff handed to the
\* handler, a directory pushed on the worker's stack, a pair dispatched.
Emit(diff)      == [op |-> "emit", diff |-> diff, dir |-> <<>>, ord |-> 0]
Push(dir)       == [op |-> "push", diff |-> NoEntry, dir |-> dir, ord |-> 0]
Pair(ord, p)    == [op |-> "pair", diff |-> NoEntry, dir |-> p, ord |-> ord]

\* ---------------------------------------------------------- process_path

Min(a, b) == IF a < b THEN a ELSE b

Last(s) == s[Len(s)]

Front(s) == SubSeq(s, 1, Len(s) - 1)

Drop(s, n) == SubSeq(s, n + 1, Len(s))

\* fill_buf(): the bytes a reader with r bytes left shows: up to a buffer.
FillBuf(r) == SubSeq(r, 1, Min(Len(r), BufCap))

\* The read loop over the two files' remaining bytes: "same" or "differ" as
\* the loop breaks with true or false.  With s1 non-empty and s2 empty the
\* common prefix is empty, nothing is consumed and the loop never ends:
\* "spin".
RECURSIVE CompareLoop(_, _)
CompareLoop(r1, r2) ==
    LET s1 == FillBuf(r1)
        s2 == FillBuf(r2)
        common_size == Min(Len(s1), Len(s2))
    IN  IF s1 = <<>> THEN (IF s2 = <<>> THEN "same" ELSE "differ")
        ELSE IF SubSeq(s1, 1, common_size) # SubSeq(s2, 1, common_size) THEN "differ"
        ELSE IF common_size = 0 THEN "spin"
        ELSE CompareLoop(Drop(r1, common_size), Drop(r2, common_size))

\* The lengths alone: files of one length pass for equal.
SameContent_LengthOnly(n1, n2) == Len(n1.data) = Len(n2.data)

\* same_content of two regular files: the lengths first, then the bytes.
SameContent(n1, n2) ==
    IF Len(n1.data) # Len(n2.data) THEN FALSE
    ELSE CompareLoop(n1.data, n2.data) = "same"

\* The mtime compared whether or not --check-mtime is given.
FilePairOps_AlwaysMTime(dir, e1, e2, chk) ==
    IF ~SameContent(e1.node, e2.node) THEN <<Emit(Different(dir, e1.name))>>
    ELSE IF e1.node.mtime # e2.node.mtime
         THEN <<Emit(SameButDifferentMTime(dir, e2.name))>>
         ELSE <<>>

\* The operations of one equal pair of regular files.
FilePairOps(dir, e1, e2, chk) ==
    IF ~SameContent(e1.node, e2.node) THEN <<Emit(Different(dir, e1.name))>>
    ELSE IF chk /\ e1.node.mtime # e2.node.mtime
         THEN <<Emit(SameButDifferentMTime(dir, e2.name))>>
         ELSE <<>>

\* The two targets never compared.
LinkPairOps_Never(dir, e1, e2) == <<>>

\* The comparison of the two targets inverted.
LinkPairOps_Inverted(dir, e1, e2) ==
    IF e1.node.target = e2.node.target THEN <<Emit(Different(dir, e1.name))>>
    ELSE <<>>

\* The operations of one equal pair of symbolic links.
LinkPairOps(dir, e1, e2) ==
    IF e1.node.target # e2.node.target THEN <<Emit(Different(dir, e1.name))>>
    ELSE <<>>

\* What is left of a listing when the other is empty not reported.
DrainOps_Skipped(dir, content, side) == <<>>

\* The rest of either listing reported as present in the first directory.
DrainOps_OneSided(dir, content, side) ==
    [i \in 1..Len(content) |-> Emit(InDir1Only(dir, content[i].name))]

\* The loops of lines 284 and 290 over what is left of one listing.
DrainOps(dir, content, side) ==
    [i \in 1..Len(content) |->
        Emit(IF side = 1 THEN InDir1Only(dir, content[i].name)
                         ELSE InDir2Only(dir, content[i].name))]

\* The merge loop of process_path over the two sorted listings.
RECURSIVE MergeLoop(_, _, _, _, _)
MergeLoop(dir, c1, c2, chk, ops) ==
    IF c1 = <<>> THEN [status |-> "ok", ops |-> ops \o DrainOps(dir, c2, 2)]
    ELSE IF c2 = <<>> THEN [status |-> "ok", ops |-> ops \o DrainOps(dir, c1, 1)]
    ELSE LET e1 == Last(c1)
             e2 == Last(c2)
             ft1 == file_type_order(e1.file_type)
         IN  IF KeyLess(SortKey(e1), SortKey(e2))
             THEN MergeLoop(dir, c1, Front(c2), chk,
                            Append(ops, Emit(InDir2Only(dir, e2.name))))
             ELSE IF KeyLess(SortKey(e2), SortKey(e1))
             THEN MergeLoop(dir, Front(c1), c2, chk,
                            Append(ops, Emit(InDir1Only(dir, e1.name))))
             ELSE LET p == Append(dir, e1.name)
                      paired == Append(ops, Pair(ft1, p))
                  IN  CASE ft1 = 0 ->
                             MergeLoop(dir, Front(c1), Front(c2), chk,
                                       Append(paired, Push(p)))
                        [] ft1 = 1 ->
                             MergeLoop(dir, Front(c1), Front(c2), chk,
                                       paired \o LinkPairOps(dir, e1, e2))
                        [] ft1 = 2 ->
                             MergeLoop(dir, Front(c1), Front(c2), chk,
                                       paired \o FilePairOps(dir, e1, e2, chk))
                        [] OTHER -> [status |-> "err", ops |-> paired]

\* process_path(dir): both directories are listed and sorted, then merged.
process_path(root1, root2, dir, chk, follow) ==
    LET l1 == Listing(root1, dir, follow) IN
    IF l1.status # "ok" THEN [status |-> l1.status, ops |-> <<>>]
    ELSE LET l2 == Listing(root2, dir, follow) IN
         IF l2.status # "ok" THEN [status |-> l2.status, ops |-> <<>>]
         ELSE MergeLoop(dir, l1.content, l2.content, chk, <<>>)

\* ------------------------------------------------------------- the state

VARIABLES
    root1,          \* the first tree (dir1)
    root2,          \* the second tree (dir2)
    check_mtime,    \* --check-mtime
    follow_symlink, \* -L
    n_threads,      \* the number of workers
    plan,           \* plan[dir]: what process_path(dir) does on the two trees
    own,            \* own[w]: worker w's deque, oldest item first
    non_idle,       \* the shared counter
    pc,             \* pc[w]: where worker w is in run()
    su,             \* su[w]: the work item worker w holds, <<dir>>, or <<>>
    scan,           \* scan[w]: the steal round of worker w
    events,         \* the bag of diffs handed to the handler
    pushed,         \* the bag of directories pushed on a stack
    processed,      \* the bag of directories process_path was called with
    joined,         \* the number of workers main has joined
    exit,           \* how main ended: "running", "ok", "err" or "panic"
    at,             \* where the comparison of a pair of regular files is
    f1,             \* the BufReader of the first file
    f2,             \* the BufReader of the second file
    same_content,   \* "unset", or "same" / "differ" as same_content is true / false
    iters           \* the number of iterations of the read loop begun

inputs == <<root1, root2, check_mtime, follow_symlink, n_threads, plan>>

\* The state of the comparison of one pair of regular files.
readers == <<at, f1, f2, same_content, iters>>

vars == <<root1, root2, check_mtime, follow_symlink, n_threads, plan, own,
          non_idle, pc, su, scan, events, pushed, processed, joined, exit,
          at, f1, f2, same_content, iters>>

Workers == 1..n_threads

\* StackHandle::new: worker w holds a stealer of every other worker's deque,
\* in the order of the workers; Stealer(w, i) is the owner of the i-th.
NumStealers == n_threads - 1

Stealer(w, i) == IF i < w THEN i ELSE i + 1

NoItem == <<>>

\* A steal round before its first steal().
NewRound == [i |-> 1, retry |-> FALSE, snap |-> NoItem]

Finished(w) == pc[w] \in {"ok", "err", "panic"}

\* --------------------------------------------------------------- actions

\* The deque after the owner's push, the owner's pop and a steal: the owner
\* works at the back (Worker::new_lifo), a stealer takes the oldest item.
AfterPush(q, dir) == Append(q, dir)

AfterPop(q) == Front(q)

\* A steal that leaves the item in the victim's deque.
AfterSteal_KeepsItem(q) == q

\* A steal that empties the victim's deque.
AfterSteal_DropsRest(q) == <<>>

AfterSteal(q) == Tail(q)

\* The counter after fetch_sub(1) and fetch_add(1), which wrap.
FetchSub(n) == (n + U16 - 1) % U16

\* A successful steal that does not count the worker in.
FetchAdd_Forgotten(n) == n

\* A successful steal that counts the worker in twice.
FetchAdd_Twice(n) == (n + 2) % U16

FetchAdd(n) == (n + 1) % U16

\* run(), line 230: self.stack.own.pop().
Pop(w) ==
    /\ exit = "running"
    /\ pc[w] = "pop"
    /\ IF own[w] # <<>>
       THEN /\ su' = [su EXCEPT ![w] = <<Last(own[w])>>]
            /\ own' = [own EXCEPT ![w] = AfterPop(own[w])]
            /\ pc' = [pc EXCEPT ![w] = "process"]
       ELSE /\ pc' = [pc EXCEPT ![w] = "idle"]
            /\ UNCHANGED <<su, own>>
    /\ UNCHANGED <<readers, inputs, non_idle, scan, events, pushed, processed, joined, exit>>

\* run(), line 235: the worker counts itself out and starts to steal.
BecomeIdle(w) ==
    /\ exit = "running"
    /\ pc[w] = "idle"
    /\ non_idle' = FetchSub(non_idle)
    /\ pc' = [pc EXCEPT ![w] = "steal"]
    /\ scan' = [scan EXCEPT ![w] = NewRound]
    /\ UNCHANGED <<readers, inputs, own, su, events, pushed, processed, joined, exit>>

\* The round goes on with the next stealer, or ends: Steal::Retry when a
\* steal of the round lost a race (snooze, next round), else Steal::Empty
\* (the counter is read next).
Advance(w, retry) ==
    IF scan[w].i < NumStealers
    THEN /\ scan' = [scan EXCEPT ![w] = [i |-> scan[w].i + 1, retry |-> retry,
                                         snap |-> NoItem]]
         /\ pc' = [pc EXCEPT ![w] = "steal"]
    ELSE /\ scan' = [scan EXCEPT ![w] = NewRound]
         /\ pc' = [pc EXCEPT ![w] = IF retry THEN "steal" ELSE "load"]

\* run(), line 239: one steal() begins: an empty deque answers Steal::Empty,
\* else the stealer reads the oldest item and will try to take it.
StealRead(w) ==
    /\ exit = "running"
    /\ pc[w] = "steal"
    /\ IF NumStealers = 0
       THEN /\ pc' = [pc EXCEPT ![w] = "load"]
            /\ UNCHANGED scan
       ELSE LET v == Stealer(w, scan[w].i) IN
            IF own[v] = <<>>
            THEN Advance(w, scan[w].retry)
            ELSE /\ scan' = [scan EXCEPT ![w].snap = <<Head(own[v])>>]
                 /\ pc' = [pc EXCEPT ![w] = "cas"]
    /\ UNCHANGED <<readers, inputs, own, non_idle, su, events, pushed, processed, joined, exit>>

\* run(), line 239: the steal() ends: Steal::Success when the item read is
\* still the oldest of the deque, Steal::Retry when another thread took it.
StealTake(w) ==
    /\ exit = "running"
    /\ pc[w] = "cas"
    /\ LET v == Stealer(w, scan[w].i) IN
       IF own[v] # <<>> /\ <<Head(own[v])>> = scan[w].snap
       THEN /\ own' = [own EXCEPT ![v] = AfterSteal(own[v])]
            /\ su' = [su EXCEPT ![w] = scan[w].snap]
            /\ pc' = [pc EXCEPT ![w] = "woken"]
            /\ scan' = [scan EXCEPT ![w] = NewRound]
       ELSE /\ Advance(w, TRUE)
            /\ UNCHANGED <<own, su>>
    /\ UNCHANGED <<readers, inputs, non_idle, events, pushed, processed, joined, exit>>

\* run(), line 245: after an empty round the worker returns Ok(()) when the
\* counter reads 0, and else snoozes and starts another round.
\* The termination test off by one.
AllIdle_OffByOne(n) == n = 1

AllIdle(n) == n = 0

Load(w) ==
    /\ exit = "running"
    /\ pc[w] = "load"
    /\ pc' = [pc EXCEPT ![w] = IF AllIdle(non_idle) THEN "ok" ELSE "steal"]
    /\ UNCHANGED <<readers, inputs, own, non_idle, su, scan, events, pushed, processed,
                   joined, exit>>

\* run(), line 251: after a successful steal the worker counts itself in.
Woken(w) ==
    /\ exit = "running"
    /\ pc[w] = "woken"
    /\ non_idle' = FetchAdd(non_idle)
    /\ pc' = [pc EXCEPT ![w] = "process"]
    /\ UNCHANGED <<readers, inputs, own, su, scan, events, pushed, processed, joined, exit>>

\* The diffs and the directories among operations, in their order.
RECURSIVE Diffs(_)
Diffs(ops) ==
    IF ops = <<>> THEN <<>>
    ELSE (IF Head(ops).op = "emit" THEN <<Head(ops).diff>> ELSE <<>>) \o Diffs(Tail(ops))

RECURSIVE Dirs(_)
Dirs(ops) ==
    IF ops = <<>> THEN <<>>
    ELSE (IF Head(ops).op = "push" THEN <<Head(ops).dir>> ELSE <<>>) \o Dirs(Tail(ops))

RECURSIVE PushAll(_, _)
PushAll(q, dirs) ==
    IF dirs = <<>> THEN q ELSE PushAll(AfterPush(q, Head(dirs)), Tail(dirs))

RECURSIVE AddAll(_, _)
AddAll(bag, s) ==
    IF s = <<>> THEN bag ELSE AddAll(bag (+) SetToBag({Head(s)}), Tail(s))

\* run(), lines 231 and 252: process_path(su.dir)?: its diffs reach the
\* handler and its directories the worker's own deque; an error or a panic
\* ends run().  The trees do not change during a run, so what process_path
\* does with a directory is read from plan, which Start computes.
Process(w) ==
    /\ exit = "running"
    /\ pc[w] = "process"
    /\ LET dir == su[w][1]
           r == plan[dir]
       IN  /\ events' = AddAll(events, Diffs(r.ops))
           /\ own' = [own EXCEPT ![w] = PushAll(own[w], Dirs(r.ops))]
           /\ pushed' = AddAll(pushed, Dirs(r.ops))
           /\ processed' = AddAll(processed, <<dir>>)
           /\ pc' = [pc EXCEPT ![w] = IF r.status = "ok" THEN "pop" ELSE r.status]
    /\ su' = [su EXCEPT ![w] = NoItem]
    /\ UNCHANGED <<readers, inputs, non_idle, scan, joined, exit>>

\* main(), lines 465-468: the workers are joined in their order; the first
\* that ended with an error ends main with it (join().unwrap() panics when
\* the worker panicked), and when all returned Ok(()) main returns Ok(()).
\* The process, and every thread still running, ends with main.
Join ==
    /\ exit = "running"
    /\ joined < n_threads
    /\ Finished(joined + 1)
    /\ IF pc[joined + 1] = "ok"
       THEN /\ joined' = joined + 1
            /\ exit' = IF joined + 1 = n_threads THEN "ok" ELSE "running"
       ELSE /\ exit' = pc[joined + 1]
            /\ UNCHANGED joined
    /\ UNCHANGED <<readers, inputs, own, non_idle, pc, su, scan, events, pushed, processed>>

Step(w) ==
    \/ Pop(w)
    \/ BecomeIdle(w)
    \/ StealRead(w)
    \/ StealTake(w)
    \/ Load(w)
    \/ Woken(w)
    \/ Process(w)

Next ==
    \/ \E w \in Workers : Pop(w)
    \/ \E w \in Workers : BecomeIdle(w)
    \/ \E w \in Workers : StealRead(w)
    \/ \E w \in Workers : StealTake(w)
    \/ \E w \in Workers : Load(w)
    \/ \E w \in Workers : Woken(w)
    \/ \E w \in Workers : Process(w)
    \/ Join

\* A file not opened: no reader.  A reader holds the bytes of the file not
\* consumed yet (rest), the first buf of which are in its buffer; opened
\* counts the calls of File::open on the file.
NotOpened == [rest |-> <<>>, buf |-> 0, opened |-> 0]

\* main(), lines 442-464: n_threads deques, the counter at n_threads, the
\* empty path on the first worker's deque, every worker at the top of run().
\* The names of the directories whose listings are merged on their own.
WideNames == {1, 2, 3}

RECURSIVE Paths(_)
Paths(depth) ==
    IF depth = 0 THEN {<<>>}
    ELSE LET shorter == Paths(depth - 1) IN
         shorter \cup {Append(p, n) : p \in shorter, n \in Names \cup WideNames}

Start(wmax) ==
    /\ n_threads \in 1..wmax
    /\ plan = [dir \in Paths(MaxDepth) |->
                  process_path(root1, root2, dir, check_mtime, follow_symlink)]
    /\ own = [w \in Workers |-> IF w = 1 THEN <<<<>>>> ELSE <<>>]
    /\ non_idle = n_threads
    /\ pc = [w \in Workers |-> "pop"]
    /\ su = [w \in Workers |-> NoItem]
    /\ scan = [w \in Workers |-> NewRound]
    /\ events = EmptyBag
    /\ pushed = SetToBag({<<>>})
    /\ processed = EmptyBag
    /\ joined = 0
    /\ exit = "running"
    /\ at = "off"
    /\ f1 = NotOpened
    /\ f2 = NotOpened
    /\ same_content = "unset"
    /\ iters = 0

\* run() of a single worker as a function of the inputs: the stack is
\* popped at the back, the directory processed, its sub-directories pushed,
\* until the stack is empty or process_path fails.
RECURSIVE RunLoop(_, _, _, _, _, _)
RunLoop(r1, r2, chk, follow, stack, diffs) ==
    IF stack = <<>> THEN [status |-> "ok", diffs |-> diffs]
    ELSE LET r == process_path(r1, r2, Last(stack), chk, follow)
             ds == diffs \cup {Diffs(r.ops)[i] : i \in 1..Len(Diffs(r.ops))}
         IN  IF r.status # "ok" THEN [status |-> r.status, diffs |-> ds]
             ELSE RunLoop(r1, r2, chk, follow,
                          PushAll(AfterPop(stack), Dirs(r.ops)), ds)

SingleRun(r1, r2, chk, follow) == RunLoop(r1, r2, chk, follow, <<<<>>>>, {})

\* ---------------------------------------------------------------- inputs

Fa  == File(<<1>>, 1)
Fa2 == File(<<1>>, 2)
Fb  == File(<<2>>, 1)
Fl  == File(<<1, 2>>, 1)
Fm  == File(<<1, 1>>, 2)

\* The trees the workers are run on.
TA  == <<Dir(<<Fa, Fb>>), Dir(<<Fa>>)>>
TA2 == <<Dir(<<Fa2, Fb>>), Dir(<<Fa>>)>>
TB  == <<Dir(<<Fa2, Fl>>), Dir(2 :> Other)>>
TC  == <<Link(2), Dir(<<Other, Dir(<<Fa>>)>>)>>
TD  == <<Dir(<<Dir(<<Fb>>), Fa>>), Fa>>
TH  == <<Dir(<<Dir(<<Fl>>), Link(1)>>), Dir(<<Link(1)>>)>>
TE  == <<Dir(<<Fb>>), Fb>>

Trees == {TA, TA2, TB, TC, TD, TE, TH}

Init ==
    /\ root1 \in Trees
    /\ root2 \in Trees
    /\ check_mtime \in BOOLEAN
    /\ follow_symlink \in BOOLEAN
    /\ Start(MaxWorkers)

Spec == Init /\ [][Next]_vars

\* The single worker of -j 1 on every pair of small trees: a directory
\* holds any of the names, each a file, a link, a device or a directory.
SubDirs == {EmptyDir, <<Fa>>, <<Fb, Other>>, (2 :> Fm)}

Entries == {Fa, Fa2, Fb, Fl, Fm, Link(1), Link(2), Other} \cup {Dir(d) : d \in SubDirs}

SmallTrees == UNION {[S -> Entries] : S \in SUBSET Names}

InitSeq ==
    /\ root1 \in SmallTrees
    /\ root2 \in SmallTrees
    /\ check_mtime \in BOOLEAN
    /\ follow_symlink \in BOOLEAN
    /\ Start(1)

NextSeq ==
    \/ \E w \in Workers : Pop(w)
    \/ \E w \in Workers : BecomeIdle(w)
    \/ \E w \in Workers : StealRead(w)
    \/ \E w \in Workers : Load(w)
    \/ \E w \in Workers : Process(w)
    \/ Join

SeqSpec == InitSeq /\ [][NextSeq]_vars

\* The single worker on every pair of flat directories of up to three names:
\* the listings the merge loop of process_path goes through.
FlatEntries == {Fa, Link(1), Other, Dir(EmptyDir)}

FlatDirs == UNION {[S -> FlatEntries] : S \in SUBSET WideNames}

InitMerge ==
    /\ root1 \in FlatDirs
    /\ root2 \in FlatDirs
    /\ check_mtime = FALSE
    /\ follow_symlink \in BOOLEAN
    /\ Start(1)

MergeSpec == InitMerge /\ [][NextSeq]_vars

\* The scheduling of the threads: a thread that can run does run, and so
\* does main when the worker it joins has ended.
FairPairs == {<<TA, TB>>, <<TD, TD>>, <<TC, TC>>, <<TH, TA>>}

InitFair ==
    /\ \E p \in FairPairs : root1 = p[1] /\ root2 = p[2]
    /\ check_mtime = TRUE
    /\ follow_symlink \in BOOLEAN
    /\ Start(MaxWorkers)

FairSpec ==
    /\ InitFair
    /\ [][Next]_vars
    /\ \A w \in 1..MaxWorkers : WF_vars(w \in Workers /\ Step(w))
    /\ WF_vars(Join)

\* What the two trees hold under a relative path.
NamesAt(root, dir) == DOMAIN Walk(root, dir).sub

EntryAt(root, dir, n) == FileT_new(Walk(root, dir).sub, n, follow_symlink)

OrderAt(root, dir, n) == file_type_order(EntryAt(root, dir, n).file_type)

\* ------------------------------------- the comparison of two regular files

\* The arm of process_path for a pair of regular files (lines 327-360), a
\* step at a time, for the pair named 1 of the two root directories.
TheName == 1

e1_node == EntryAt(root1, <<>>, TheName).node

e2_node == EntryAt(root2, <<>>, TheName).node

\* The lengths never compared.
MetaLenEqual_Skipped(n1, n2) == TRUE

\* Line 330: the lengths of the two metadata.
MetaLenEqual(n1, n2) == Len(n1.data) = Len(n2.data)

\* File::open and BufReader::new: nothing is read yet.
Open(f, node) == [rest |-> node.data, buf |-> 0, opened |-> f.opened + 1]

\* fill_buf(): what is left in the buffer or, when the buffer is empty, what
\* one read() brings: nothing at the end of the file, else any number of
\* bytes from one to the buffer's capacity.
FillSizes(f) ==
    IF f.buf > 0 THEN {f.buf}
    ELSE IF f.rest = <<>> THEN {0}
    ELSE 1..Min(Len(f.rest), BufCap)

Slice(f) == SubSeq(f.rest, 1, f.buf)

\* Nothing consumed.
Consume_Nothing(f, amt) == f

\* The whole buffer consumed, whatever was compared.
Consume_WholeBuffer(f, amt) == [f EXCEPT !.rest = Drop(@, f.buf), !.buf = 0]

\* consume(amt).
Consume(f, amt) == [f EXCEPT !.rest = Drop(@, amt), !.buf = @ - amt]

\* The end of the first file taken for a difference.
BreakOnEmpty_False(s2) == "differ"

\* Line 339: break s2.is_empty().
BreakOnEmpty(s2) == IF s2 = <<>> THEN "same" ELSE "differ"

\* Lines 328-334: the metadata are read; the files are opened when the
\* lengths are equal, and same_content is false when they are not.
ReadMeta ==
    /\ at = "meta"
    /\ IF MetaLenEqual(e1_node, e2_node)
       THEN /\ f1' = Open(f1, e1_node)
            /\ f2' = Open(f2, e2_node)
            /\ at' = "fill"
            /\ UNCHANGED same_content
       ELSE /\ same_content' = "differ"
            /\ at' = "report"
            /\ UNCHANGED <<f1, f2>>
    /\ UNCHANGED <<iters, inputs, own, non_idle, pc, su, scan, events, pushed,
                   processed, joined, exit>>

\* Lines 336-337: an iteration begins with the two fill_buf().
FillBufs ==
    /\ at = "fill"
    /\ \E k1 \in FillSizes(f1), k2 \in FillSizes(f2) :
          /\ f1' = [f1 EXCEPT !.buf = k1]
          /\ f2' = [f2 EXCEPT !.buf = k2]
    /\ iters' = iters + 1
    /\ at' = "test"
    /\ UNCHANGED <<same_content, inputs, own, non_idle, pc, su, scan, events,
                   pushed, processed, joined, exit>>

\* Lines 338-347: the two buffers are compared on their common prefix.
CompareBufs ==
    /\ at = "test"
    /\ LET s1 == Slice(f1)
           s2 == Slice(f2)
           common_size == Min(Len(s1), Len(s2))
       IN  IF s1 = <<>>
           THEN /\ same_content' = BreakOnEmpty(s2)
                /\ at' = "report"
                /\ UNCHANGED <<f1, f2>>
           ELSE IF SubSeq(s1, 1, common_size) # SubSeq(s2, 1, common_size)
           THEN /\ same_content' = "differ"
                /\ at' = "report"
                /\ UNCHANGED <<f1, f2>>
           ELSE /\ f1' = Consume(f1, common_size)
                /\ f2' = Consume(f2, common_size)
                /\ at' = "fill"
                /\ UNCHANGED same_content
    /\ UNCHANGED <<iters, inputs, own, non_idle, pc, su, scan, events, pushed,
                   processed, joined, exit>>

\* Lines 350-359: the diff of the pair, if any.
Report ==
    /\ at = "report"
    /\ events' = AddAll(events,
          IF same_content # "same" THEN <<Different(<<>>, TheName)>>
          ELSE IF check_mtime /\ e1_node.mtime # e2_node.mtime
               THEN <<SameButDifferentMTime(<<>>, TheName)>>
               ELSE <<>>)
    /\ at' = "done"
    /\ UNCHANGED <<f1, f2, same_content, iters, inputs, own, non_idle, pc, su,
                   scan, pushed, processed, joined, exit>>

NextCmp == ReadMeta \/ FillBufs \/ CompareBufs \/ Report

\* The files compared: every sequence of at most MaxLen bytes.
Bytes == {1, 2}

Datas == UNION {[1..k -> Bytes] : k \in 0..MaxLen}

\* The single worker is in process_path("") on two directories that hold one
\* regular file each, under the same name, and has reached the pair.
InitCmp ==
    /\ \E d1, d2 \in Datas, m \in {1, 2} :
          /\ root1 = (TheName :> File(d1, 1))
          /\ root2 = (TheName :> File(d2, m))
    /\ check_mtime \in BOOLEAN
    /\ follow_symlink = FALSE
    /\ n_threads = 1
    /\ plan = [dir \in Paths(MaxDepth) |->
                  process_path(root1, root2, dir, check_mtime, follow_symlink)]
    /\ own = [w \in Workers |-> <<>>]
    /\ non_idle = n_threads
    /\ pc = [w \in Workers |-> "process"]
    /\ su = [w \in Workers |-> <<<<>>>>]
    /\ scan = [w \in Workers |-> NewRound]
    /\ events = EmptyBag
    /\ pushed = SetToBag({<<>>})
    /\ processed = EmptyBag
    /\ joined = 0
    /\ exit = "running"
    /\ at = "meta"
    /\ f1 = NotOpened
    /\ f2 = NotOpened
    /\ same_content = "unset"
    /\ iters = 0

CmpSpec == InitCmp /\ [][NextCmp]_vars

\* The worker's thread goes on running while it is in the arm.
CmpFairSpec == InitCmp /\ [][NextCmp]_vars /\ WF_vars(NextCmp)

\* ---------------------------------------------------------------- claims

AllReturned == \A w \in Workers : pc[w] = "ok"

SomeFailed == \E w \in Workers : pc[w] \in {"err", "panic"}

SomeErr == \E w \in Workers : pc[w] = "err"

\* C1: in a run that ends without error the set of diffs emitted is a
\* function of the two trees and the flags: it is the set the single worker
\* of -j 1 emits, whatever the number of workers and their interleaving.
C1_EventSetDetermined ==
    exit = "ok" =>
        BagToSet(events) = SingleRun(root1, root2, check_mtime, follow_symlink).diffs

C1_Witness ==
    /\ exit = "ok"
    /\ n_threads > 1
    /\ BagCardinality(processed) > 2
    /\ Cardinality(BagToSet(events)) > 2

\* C4 as claimed: once a worker has read non_idle = 0 after an empty steal
\* round and returned, no deque and no worker holds a work item.
C4_NoWorkAfterReturn ==
    (\E w \in Workers : pc[w] = "ok") =>
        \A v \in Workers : own[v] = <<>> /\ su[v] = NoItem

\* C5: whenever a deque holds a work item the counter non_idle is above 0,
\* so a worker that reads 0 after its empty round finds every deque empty.
C5_WorkImpliesNonIdle ==
    /\ \A v \in Workers : own[v] # <<>> => non_idle > 0
    /\ \A w \in Workers :
          (pc[w] = "load" /\ non_idle = 0) => \A v \in Workers : own[v] = <<>>

C5_Witness ==
    \E w, v \in Workers : pc[w] = "load" /\ own[v] # <<>> /\ non_idle = 1

\* The tree without its modification times.
RECURSIVE Unstamped(_)
Unstamped(d) ==
    [n \in DOMAIN d |->
        IF d[n].k = "dir" THEN Dir(Unstamped(d[n].sub)) ELSE [d[n] EXCEPT !.mtime = 0]]

SameTrees == Unstamped(root1) = Unstamped(root2)

\* C9: on two trees with the same names, types, contents and link targets,
\* without --check-mtime, no diff is emitted, whatever the number of workers.
C9_Reflexive == (SameTrees /\ ~check_mtime) => events = EmptyBag

C9_Witness ==
    /\ exit = "ok"
    /\ SameTrees
    /\ root1 # root2
    /\ ~check_mtime
    /\ n_threads > 1
    /\ BagCardinality(processed) > 2

\* The number of entries of a set of names of a directory, sub-directories
\* (and the directories links lead to) included.
RECURSIVE EntryCount(_, _)
EntryCount(d, S) ==
    IF S = {} THEN 0
    ELSE LET n == CHOOSE x \in S : TRUE
             e == Canonicalize(d, n)
         IN  1 + (IF e.k = "dir" THEN EntryCount(e.sub, DOMAIN e.sub) ELSE 0)
               + EntryCount(d, S \ {n})

EventBound == EntryCount(root1, DOMAIN root1) + EntryCount(root2, DOMAIN root2)

\* C3: under fair scheduling every worker returns Ok(()) unless a worker
\* ends with a fatal error, and never more diffs are emitted than the two
\* trees have entries.
C3_Termination ==
    /\ <>(AllReturned \/ SomeFailed)
    /\ [](BagCardinality(events) <= EventBound)

C3_Witness ==
    /\ AllReturned
    /\ n_threads > 1
    /\ BagCardinality(processed) > 2
    /\ BagCardinality(events) > 2

\* C6 as claimed: after a worker has ended with a fatal error every worker
\* ends its loop (unless main has ended the process before).
C6_PeersReturnAfterError ==
    SomeErr ~> (exit # "running" \/ \A w \in Workers : Finished(w))

\* C7 as claimed: after a worker has ended with a fatal error main ends with
\* an error.
C7_ErrorEndsRun == SomeErr ~> (exit \in {"err", "panic"})

\* The number of diffs emitted for a name of a directory, and the number of
\* times the name was pushed as a directory to compare.
EventsFor(dir, n) ==
    CopiesIn(InDir1Only(dir, n), events) + CopiesIn(InDir2Only(dir, n), events)
    + CopiesIn(Different(dir, n), events)
    + CopiesIn(SameButDifferentMTime(dir, n), events)

PushesFor(dir, n) == CopiesIn(Append(dir, n), pushed)

\* Two entries of one type that the comparison has nothing to say about.
EqualLeaves(e1, e2) ==
    IF e1.file_type = "link" THEN e1.node.target = e2.node.target
    ELSE /\ e1.node.data = e2.node.data
         /\ (check_mtime => e1.node.mtime = e2.node.mtime)

\* C2 as claimed: after a run every name of a compared directory is in
\* exactly one diff or was pushed once, and not both.
C2_ExactlyOneEventOrRecursion ==
    exit = "ok" =>
        \A dir \in BagToSet(processed) :
            \A n \in NamesAt(root1, dir) \cup NamesAt(root2, dir) :
                EventsFor(dir, n) + PushesFor(dir, n) = 1

\* C2 as amended: after a run that ends without fatal error every name of a
\* compared directory is handled once: a name of one side is in exactly one
\* diff (InDir1Only or InDir2Only); a pair of directories is pushed once
\* and in no diff; a pair of links or of regular files is in at most one
\* diff, in none exactly when the pair is found equal, and is not pushed; a
\* name whose two entries differ in file_type_order is in exactly two diffs,
\* one InDir1Only and one InDir2Only, and is not pushed.
C2_HandledOnce ==
    exit = "ok" =>
        \A dir \in BagToSet(processed) :
            \A n \in NamesAt(root1, dir) \cup NamesAt(root2, dir) :
                LET ev == EventsFor(dir, n)
                    rec == PushesFor(dir, n)
                    in1 == CopiesIn(InDir1Only(dir, n), events)
                    in2 == CopiesIn(InDir2Only(dir, n), events)
                IN  IF n \notin NamesAt(root2, dir) THEN ev = 1 /\ in1 = 1 /\ rec = 0
                    ELSE IF n \notin NamesAt(root1, dir) THEN ev = 1 /\ in2 = 1 /\ rec = 0
                    ELSE IF OrderAt(root1, dir, n) # OrderAt(root2, dir, n)
                         THEN ev = 2 /\ in1 = 1 /\ in2 = 1 /\ rec = 0
                    ELSE IF OrderAt(root1, dir, n) = 0 THEN ev = 0 /\ rec = 1
                    ELSE /\ OrderAt(root1, dir, n) \in {1, 2}
                         /\ rec = 0
                         /\ ev <= 1
                         /\ ev = 0 <=> EqualLeaves(EntryAt(root1, dir, n),
                                                   EntryAt(root2, dir, n))

C2_Witness ==
    /\ exit = "ok"
    /\ \E n \in Names :
          /\ n \in NamesAt(root1, <<>>) \cap NamesAt(root2, <<>>)
          /\ OrderAt(root1, <<>>, n) # OrderAt(root2, <<>>, n)
          /\ EventsFor(<<>>, n) = 2
    /\ \E n \in Names :
          /\ PushesFor(<<>>, n) = 1
          /\ <<n>> \in BagToSet(processed)
          /\ \E m \in NamesAt(root1, <<n>>) \cap NamesAt(root2, <<n>>) :
                /\ OrderAt(root1, <<n>>, m) = 2
                /\ OrderAt(root2, <<n>>, m) = 2
                /\ EventsFor(<<n>>, m) = 0

\* InDir1Only and InDir2Only exchanged.
SwapSides(D) ==
    {IF d.tag = "InDir1Only" THEN InDir2Only(d.dir, d.name)
     ELSE IF d.tag = "InDir2Only" THEN InDir1Only(d.dir, d.name)
     ELSE d : d \in D}

\* C8: the diffs of comparing root1 with root2 are the diffs of comparing
\* root2 with root1 with InDir1Only and InDir2Only exchanged and the
\* Different and SameButDifferentMTime diffs unchanged.
C8_Symmetry ==
    exit # "running" =>
        BagToSet(events) =
            SwapSides(SingleRun(root2, root1, check_mtime, follow_symlink).diffs)

C8_Witness ==
    /\ exit = "ok"
    /\ root1 # root2
    /\ \E d \in BagToSet(events) : d.tag = "InDir1Only"
    /\ \E d \in BagToSet(events) : d.tag = "Different"
    /\ BagCardinality(processed) > 1

NonMTime(D) == {d \in D : d.tag # "SameButDifferentMTime"}

\* The names process_path dispatched as pairs of regular files in dir.
FilePairs(dir) ==
    {Last(plan[dir].ops[i].dir) :
        i \in {j \in 1..Len(plan[dir].ops) :
                  plan[dir].ops[j].op = "pair" /\ plan[dir].ops[j].ord = 2}}

\* C10: the InDir1Only, InDir2Only and Different diffs are those of the run
\* with --check-mtime switched the other way, and a pair of regular files
\* gets a SameButDifferentMTime diff exactly when the flag is on, the
\* contents are equal and the modification times differ.
C10_MTimeAdditive ==
    exit # "running" =>
        /\ NonMTime(BagToSet(events)) =
              NonMTime(SingleRun(root1, root2, ~check_mtime, follow_symlink).diffs)
        /\ \A dir \in BagToSet(processed) :
              \A n \in FilePairs(dir) :
                  BagIn(SameButDifferentMTime(dir, n), events) <=>
                      /\ check_mtime
                      /\ EntryAt(root1, dir, n).node.data = EntryAt(root2, dir, n).node.data
                      /\ EntryAt(root1, dir, n).node.mtime # EntryAt(root2, dir, n).node.mtime

C10_Witness ==
    /\ exit = "ok"
    /\ check_mtime
    /\ \E d \in BagToSet(events) : d.tag = "SameButDifferentMTime"
    /\ \E d \in BagToSet(events) : d.tag = "Different"
    /\ \E n \in FilePairs(<<>>) : BagIn(SameButDifferentMTime(<<>>, n), events)

\* The type of the entry itself (lstat), whatever the policy.
KindAt(root, dir, n) == Walk(root, dir).sub[n].k

\* The names both directories hold.
BothAt(dir) == NamesAt(root1, dir) \cap NamesAt(root2, dir)

\* process_path(dir) went through both listings.
Completed(dir) == plan[dir].status = "ok"

CountOf(d) == CopiesIn(d, events)

\* C11: without -L, two links of one name in a compared directory pair get
\* no diff when their targets are the same text and exactly one Different
\* diff when they are not, whatever the targets hold; they are not pushed.
C11_LinkPairByTarget ==
    ~follow_symlink =>
        \A dir \in BagToSet(processed) :
            Completed(dir) =>
                \A n \in BothAt(dir) :
                    (KindAt(root1, dir, n) = "link" /\ KindAt(root2, dir, n) = "link") =>
                        LET same == Walk(root1, dir).sub[n].target
                                        = Walk(root2, dir).sub[n].target
                        IN  /\ EventsFor(dir, n) = IF same THEN 0 ELSE 1
                            /\ CountOf(Different(dir, n)) = EventsFor(dir, n)
                            /\ PushesFor(dir, n) = 0

C11_Witness ==
    /\ exit = "ok"
    /\ ~follow_symlink
    /\ \E n \in BothAt(<<>>) :
          /\ KindAt(root1, <<>>, n) = "link"
          /\ KindAt(root2, <<>>, n) = "link"
          /\ root1[n].target = root2[n].target
          /\ Canonicalize(root1, n).k = "file"
          /\ Canonicalize(root2, n).k = "file"
          /\ Canonicalize(root1, n).data # Canonicalize(root2, n).data
          /\ EventsFor(<<>>, n) = 0

\* The merge dispatched the name as a pair (the Ordering::Equal arm).
PairedAt(dir, n) ==
    \E i \in 1..Len(plan[dir].ops) :
        plan[dir].ops[i].op = "pair" /\ plan[dir].ops[i].dir = Append(dir, n)

\* One InDir1Only and one InDir2Only diff for the name, nothing else.
ReportedApart(dir, n) ==
    /\ CountOf(InDir1Only(dir, n)) = 1
    /\ CountOf(InDir2Only(dir, n)) = 1
    /\ EventsFor(dir, n) = 2
    /\ PushesFor(dir, n) = 0
    /\ ~PairedAt(dir, n)

\* C12: without -L, a link on one side and a regular file or a directory of
\* the same name on the other are not paired: the name gets one InDir1Only
\* and one InDir2Only diff, no comparison and no push.
C12_LinkNeverPaired ==
    ~follow_symlink =>
        \A dir \in BagToSet(processed) :
            Completed(dir) =>
                \A n \in BothAt(dir) :
                    LET k1 == KindAt(root1, dir, n)
                        k2 == KindAt(root2, dir, n)
                    IN  (\/ (k1 = "link" /\ k2 \in {"file", "dir"})
                         \/ (k2 = "link" /\ k1 \in {"file", "dir"}))
                            => ReportedApart(dir, n)

C12_Witness ==
    /\ exit = "ok"
    /\ ~follow_symlink
    /\ \E n, m \in BothAt(<<>>) :
          /\ KindAt(root1, <<>>, n) = "link"
          /\ KindAt(root2, <<>>, n) = "dir"
          /\ KindAt(root1, <<>>, m) = "file"
          /\ KindAt(root2, <<>>, m) = "link"
          /\ EventsFor(<<>>, n) = 2
          /\ EventsFor(<<>>, m) = 2

\* C13: with -L an entry that is a link counts as what it points to: facing
\* an entry of the same name that is, or points to, a regular file, the two
\* files' bytes are compared (one diff when they differ or, with
\* --check-mtime, when only their mtimes do; none otherwise); facing one
\* that is, or points to, a directory, the name is pushed once and gets no
\* diff; facing another type the two are reported apart.  The names of
\* the targets do not matter.
C13_FollowedLinkByTargetType ==
    follow_symlink =>
        \A dir \in BagToSet(processed) :
            Completed(dir) =>
                \A n \in BothAt(dir) :
                    ("link" \in {KindAt(root1, dir, n), KindAt(root2, dir, n)}) =>
                        LET e1 == EntryAt(root1, dir, n)
                            e2 == EntryAt(root2, dir, n)
                        IN  /\ e1.file_type # "link" /\ e2.file_type # "link"
                            /\ IF e1.file_type # e2.file_type THEN ReportedApart(dir, n)
                               ELSE /\ PairedAt(dir, n)
                                    /\ e1.file_type \in {"file", "dir"}
                                    /\ e1.file_type = "dir" =>
                                          PushesFor(dir, n) = 1 /\ EventsFor(dir, n) = 0
                                    /\ e1.file_type = "file" =>
                                          /\ PushesFor(dir, n) = 0
                                          /\ CountOf(Different(dir, n)) =
                                                IF e1.node.data = e2.node.data THEN 0 ELSE 1
                                          /\ EventsFor(dir, n) =
                                                IF EqualLeaves(e1, e2) THEN 0 ELSE 1

C13_Witness ==
    /\ exit = "ok"
    /\ follow_symlink
    /\ \E n \in BothAt(<<>>) :
          /\ KindAt(root1, <<>>, n) = "link"
          /\ root1[n].target # n
          /\ KindAt(root2, <<>>, n) = "file"
          /\ EntryAt(root1, <<>>, n).node.data = root2[n].data
          /\ EventsFor(<<>>, n) = 0
          /\ PairedAt(<<>>, n)

\* A name both directories hold with two different types, neither a link.
TypeCollision(dir, n) ==
    /\ n \in BothAt(dir)
    /\ KindAt(root1, dir, n) # KindAt(root2, dir, n)
    /\ KindAt(root1, dir, n) # "link"
    /\ KindAt(root2, dir, n) # "link"

\* C14 as claimed: without -L, a name both directories hold with different
\* types, neither a link, gets a Different diff.
C14_CollisionIsDifferent ==
    ~follow_symlink =>
        \A dir \in BagToSet(processed) :
            Completed(dir) =>
                \A n \in NamesAt(root1, dir) :
                    TypeCollision(dir, n) => CountOf(Different(dir, n)) >= 1

\* C14 as amended: without -L, a name both directories hold with different
\* types, neither a link, gets one InDir1Only and one InDir2Only diff and
\* no Different diff; the two entries are not compared and nothing is
\* pushed for the name.
C14_CollisionReportedApart ==
    ~follow_symlink =>
        \A dir \in BagToSet(processed) :
            Completed(dir) =>
                \A n \in NamesAt(root1, dir) :
                    TypeCollision(dir, n) =>
                        ReportedApart(dir, n) /\ CountOf(Different(dir, n)) = 0

C14_Witness ==
    /\ exit = "ok"
    /\ ~follow_symlink
    /\ \E n \in Names :
          /\ TypeCollision(<<>>, n)
          /\ KindAt(root1, <<>>, n) = "dir"
          /\ KindAt(root2, <<>>, n) = "file"
          /\ CountOf(InDir1Only(<<>>, n)) = 1
          /\ CountOf(InDir2Only(<<>>, n)) = 1

\* The bytes a reader has consumed.
Consumed(f, node) == Len(node.data) - Len(f.rest)

\* C15: for two regular files of one length, whatever non-empty fills the
\* two readers get, same_content is true exactly when the files hold the
\* same bytes; the loop goes on only while every byte compared was equal on
\* both sides, and it breaks with false in the first iteration whose common
\* prefix holds a differing byte; a Different diff is emitted exactly when
\* same_content is false.
C15_ComparatorCorrect ==
    /\ at = "done" =>
          CountOf(Different(<<>>, TheName)) = IF same_content = "same" THEN 0 ELSE 1
    /\ MetaLenEqual(e1_node, e2_node) =>
          /\ same_content # "unset" =>
                (same_content = "same" <=> e1_node.data = e2_node.data)
          /\ at \in {"fill", "test"} =>
                /\ Consumed(f1, e1_node) = Consumed(f2, e2_node)
                /\ SubSeq(e1_node.data, 1, Consumed(f1, e1_node))
                      = SubSeq(e2_node.data, 1, Consumed(f2, e2_node))
          /\ same_content = "differ" =>
                LET c == Consumed(f1, e1_node)
                    common_size == Min(f1.buf, f2.buf)
                IN  /\ c = Consumed(f2, e2_node)
                    /\ SubSeq(e1_node.data, 1, c) = SubSeq(e2_node.data, 1, c)
                    /\ \E i \in (c + 1)..(c + common_size) :
                          e1_node.data[i] # e2_node.data[i]

C15_Witness ==
    /\ at = "done"
    /\ Len(e1_node.data) = MaxLen
    /\ Len(e2_node.data) = MaxLen
    /\ same_content = "differ"
    /\ iters >= 2
    /\ f1.buf # f2.buf
    /\ CountOf(Different(<<>>, TheName)) = 1

\* C16: when the lengths of the two metadata differ the pair gets exactly
\* one Different diff and neither file is opened nor read; when they are
\* equal each file is opened at most once.
C16_LengthPrefilter ==
    /\ f1.opened <= 1
    /\ f2.opened <= 1
    /\ Len(e1_node.data) # Len(e2_node.data) =>
          /\ f1.opened = 0 /\ f2.opened = 0
          /\ iters = 0
          /\ at \in {"meta", "report", "done"}
          /\ at # "meta" => same_content = "differ"
          /\ at = "done" =>
                /\ CountOf(Different(<<>>, TheName)) = 1
                /\ BagCardinality(events) = 1

C16_Witness ==
    /\ at = "done"
    /\ Len(e1_node.data) = Len(e2_node.data) + 1
    /\ SubSeq(e1_node.data, 1, Len(e2_node.data)) = e2_node.data
    /\ CountOf(Different(<<>>, TheName)) = 1
    /\ f1.opened = 0
    /\ f2.opened = 0

\* C17 as claimed: two empty regular files are judged equal, with no
\* Different diff, and the read loop is not entered.
C17_EmptyFilesNoLoop ==
    (e1_node.data = <<>> /\ e2_node.data = <<>>) =>
        /\ same_content # "differ"
        /\ CountOf(Different(<<>>, TheName)) = 0
        /\ iters = 0

\* C17 as amended: two empty regular files are judged equal, with no
\* Different diff; both files are opened and the read loop is entered once:
\* its first fill_buf finds the first file at its end and the loop breaks
\* in its first iteration, no byte compared or consumed.
C17_EmptyFilesOneIteration ==
    (e1_node.data = <<>> /\ e2_node.data = <<>>) =>
        /\ same_content # "differ"
        /\ CountOf(Different(<<>>, TheName)) = 0
        /\ iters <= 1
        /\ at \in {"report", "done"} =>
              /\ same_content = "same"
              /\ iters = 1
              /\ f1.opened = 1 /\ f2.opened = 1
              /\ f1.buf = 0 /\ f2.buf = 0

C17_Witness ==
    /\ at = "done"
    /\ e1_node.data = <<>>
    /\ e2_node.data = <<>>
    /\ same_content = "same"
    /\ iters = 1
    /\ CountOf(Different(<<>>, TheName)) = 0

\* The sort keys of the entries of a directory.
KeyAt(root, dir, n) == SortKey(EntryAt(root, dir, n))

KeysAt(root, dir) == {KeyAt(root, dir, n) : n \in NamesAt(root, dir)}

\* The keys both listings hold whose pair makes process_path bail.
AbortKeys(dir) == {k \in KeysAt(root1, dir) \cap KeysAt(root2, dir) : k[1] = 3}

\* The merge, which goes down from the greatest key, gets to the key: both
\* listings were read and no pair above the key made process_path bail.
Reached(dir, k) ==
    /\ plan[dir].status \in {"ok", "err"}
    /\ \A a \in AbortKeys(dir) : ~KeyLess(k, a)

OpCount(dir, op) ==
    Cardinality({i \in 1..Len(plan[dir].ops) : plan[dir].ops[i] = op})

PairCount(dir, n) ==
    Cardinality({i \in 1..Len(plan[dir].ops) :
                    plan[dir].ops[i].op = "pair"
                    /\ plan[dir].ops[i].dir = Append(dir, n)})

\* C18: the merge loop over two sorted listings does what an ordered merge
\* does: every key the merge gets to is handled once; a key of the first
\* listing alone gets one InDir1Only diff, a key of the second alone one
\* InDir2Only diff, a key of both is dispatched once as a pair, and
\* nothing else is emitted or dispatched, the listing left when the other
\* is empty included.
C18_MergeIsOrderedMerge ==
    \A dir \in BagToSet(processed) :
        \A n \in Names \cup WideNames :
            LET in1 == n \in NamesAt(root1, dir)
                in2 == n \in NamesAt(root2, dir)
                only1 == /\ in1
                         /\ KeyAt(root1, dir, n) \notin KeysAt(root2, dir)
                         /\ Reached(dir, KeyAt(root1, dir, n))
                only2 == /\ in2
                         /\ KeyAt(root2, dir, n) \notin KeysAt(root1, dir)
                         /\ Reached(dir, KeyAt(root2, dir, n))
                both  == /\ in1 /\ in2
                         /\ KeyAt(root1, dir, n) = KeyAt(root2, dir, n)
                         /\ Reached(dir, KeyAt(root1, dir, n))
            IN  /\ OpCount(dir, Emit(InDir1Only(dir, n))) = IF only1 THEN 1 ELSE 0
                /\ OpCount(dir, Emit(InDir2Only(dir, n))) = IF only2 THEN 1 ELSE 0
                /\ PairCount(dir, n) = IF both THEN 1 ELSE 0
                /\ CountOf(InDir1Only(dir, n)) = OpCount(dir, Emit(InDir1Only(dir, n)))
                /\ CountOf(InDir2Only(dir, n)) = OpCount(dir, Emit(InDir2Only(dir, n)))

C18_Witness ==
    /\ exit = "ok"
    /\ Cardinality(NamesAt(root1, <<>>)) = 3
    /\ NamesAt(root2, <<>>) = {2, 3}
    /\ PairCount(<<>>, 3) = 1
    /\ CountOf(InDir1Only(<<>>, 2)) = 1
    /\ CountOf(InDir2Only(<<>>, 2)) = 1
    /\ CountOf(InDir1Only(<<>>, 1)) = 1
    /\ KeyAt(root1, <<>>, 1)[1] = KeyAt(root1, <<>>, 3)[1]

\* An operation of process_path on a pair of links or of regular files: the
\* pair dispatched, or its diff.
LeafPairOp(o) ==
    \/ o.op = "pair" /\ o.ord \in {1, 2}
    \/ o.op = "emit" /\ o.diff.tag \in {"Different", "SameButDifferentMTime"}

\* In process_path(dir) every pair of links or of regular files is compared,
\* and its diff emitted, before the first push.
LeavesBeforePushes(dir) ==
    \A i, j \in 1..Len(plan[dir].ops) :
        (plan[dir].ops[i].op = "push" /\ LeafPairOp(plan[dir].ops[j])) => j < i

\* The step of worker w that runs process_path.
ProcessStep(w) == pc[w] = "process" /\ pc'[w] # "process"

IsOther(root, dir, n) ==
    n \in NamesAt(root, dir) /\ EntryAt(root, dir, n).file_type = "other"

OtherPairs(dir) == {n \in BothAt(dir) : IsOther(root1, dir, n) /\ IsOther(root2, dir, n)}

\* The pair the merge, which goes down from the greatest key, gets to first.
AbortName(dir) == CHOOSE n \in OtherPairs(dir) : \A m \in OtherPairs(dir) : m <= n

\* Such an entry of one directory that has no counterpart in the other.
LoneOther(root, other, dir, n) == IsOther(root, dir, n) /\ ~IsOther(other, dir, n)

\* The merge gets to a lone entry of that kind: no pair of that kind has a
\* greater name.
LoneReached(dir, n) ==
    plan[dir].status # "panic" /\ \A m \in OtherPairs(dir) : m < n

\* C20: process_path fails with the unimplemented-file-type error exactly
\* when the merge pairs two entries of one name that are both neither
\* directory, link nor regular file, and the error names that path; such an
\* entry without a counterpart of its kind causes no error, is never paired
\* and is reported as InDir1Only or InDir2Only when the merge gets to it;
\* the failed worker emits no diff and pushes no directory afterwards.
C20_OtherPairAborts ==
    /\ [](\A dir \in BagToSet(processed) :
            /\ plan[dir].status = "err" <=>
                  (plan[dir].status # "panic" /\ OtherPairs(dir) # {})
            /\ plan[dir].status = "err" =>
                  /\ SomeErr
                  /\ Last(plan[dir].ops) = Pair(3, Append(dir, AbortName(dir)))
                  /\ \A n \in OtherPairs(dir) :
                        PairCount(dir, n) = IF n = AbortName(dir) THEN 1 ELSE 0
            /\ \A n \in Names \cup WideNames :
                  /\ LoneOther(root1, root2, dir, n) =>
                        /\ PairCount(dir, n) = 0
                        /\ CountOf(InDir1Only(dir, n)) =
                              IF LoneReached(dir, n) THEN 1 ELSE 0
                  /\ LoneOther(root2, root1, dir, n) =>
                        /\ PairCount(dir, n) = 0
                        /\ CountOf(InDir2Only(dir, n)) =
                              IF LoneReached(dir, n) THEN 1 ELSE 0)
    /\ [][\A w \in Workers :
             pc[w] = "err" =>
                 /\ pc'[w] = "err"
                 /\ events' = events
                 /\ pushed' = pushed
                 /\ own'[w] = own[w]
                 /\ processed' = processed]_vars

C20_Witness ==
    /\ exit = "err"
    /\ ~follow_symlink
    /\ LoneOther(root1, root2, <<>>, 3)
    /\ CountOf(InDir1Only(<<>>, 3)) = 1
    /\ OtherPairs(<<>>) = {2}
    /\ PairCount(<<>>, 2) = 1
    /\ 1 \in BothAt(<<>>)
    /\ KindAt(root1, <<>>, 1) = "dir"
    /\ KindAt(root2, <<>>, 1) = "dir"
    /\ PushesFor(<<>>, 1) = 0
    /\ BagCardinality(events) = 1

\* The workers that did the fetch_sub of line 235 and not, since, the
\* fetch_add of line 251: they are in a steal round, read the counter, hold
\* an item just stolen, or returned Ok(()).
CountedOut == {w \in Workers : pc[w] \in {"steal", "cas", "load", "woken", "ok"}}

\* C21: non_idle is the number of workers less those that counted
\* themselves out and not in again; it stays between 0 and the number of
\* workers (the 16-bit counter never wraps), also once a worker has
\* returned with an error; and a step changes it by one: down by a worker
\* that was counted in, up by a worker that was counted out.
C21_NonIdleCounts ==
    /\ [](/\ non_idle = n_threads - Cardinality(CountedOut)
          /\ 0 <= non_idle
          /\ non_idle <= n_threads)
    /\ [][non_idle' # non_idle =>
             \E w \in Workers :
                 \/ /\ w \notin CountedOut
                    /\ w \in CountedOut'
                    /\ non_idle' = non_idle - 1
                 \/ /\ w \in CountedOut
                    /\ w \notin CountedOut'
                    /\ non_idle' = non_idle + 1]_vars

C21_Witness ==
    /\ n_threads = 2
    /\ non_idle = 1
    /\ \E w, v \in Workers :
          /\ pc[w] = "err"
          /\ pc[v] = "load"
          /\ BagCardinality(processed) > 2

\* The items in the deques, and the items popped or stolen and not yet
\* processed.
RECURSIVE BagOfSeqs(_)
BagOfSeqs(S) ==
    IF S = {} THEN EmptyBag
    ELSE LET w == CHOOSE x \in S : TRUE
         IN  AddAll(BagOfSeqs(S \ {w}), own[w] \o su[w])

InFlight == BagOfSeqs(Workers)

\* C22: every work item pushed, the seed included, is pushed once, is at any
\* time in exactly one place (a deque, a worker's hands, or processed), and
\* is processed at most once; once every worker has returned Ok(()), every
\* deque is empty, no worker holds an item and every item pushed has been
\* processed exactly once, whatever the order in which the workers returned.
C22_ExactlyOnce ==
    /\ \A d \in BagToSet(pushed) : CopiesIn(d, pushed) = 1
    /\ pushed = processed (+) InFlight
    /\ \A d \in BagToSet(processed) : CopiesIn(d, processed) = 1
    /\ AllReturned =>
          /\ \A w \in Workers : own[w] = <<>> /\ su[w] = NoItem
          /\ processed = pushed

C22_Witness ==
    /\ AllReturned
    /\ n_threads = 2
    /\ exit = "running"
    /\ joined = 1
    /\ BagCardinality(pushed) > 3
    /\ processed = pushed

\* C23 as claimed: for two files of one length every iteration of the read
\* loop ends the loop or consumes at least one byte on both sides, the
\* loop ends after at most as many iterations as the files have bytes, and
\* the second buffer is never empty while the first is not.
C23_AtMostLenIterations ==
    MetaLenEqual(e1_node, e2_node) =>
        /\ iters <= Len(e1_node.data)
        /\ at = "test" => ~(Slice(f1) # <<>> /\ Slice(f2) = <<>>)

\* C23 as amended: the comparison of two regular files ends.  For two files
\* of one length (the only case in which the loop is entered) every
\* iteration of the read loop ends the loop or consumes at least one byte
\* on both sides, so at most as many iterations as the files have bytes
\* consume and the loop ends in at most one iteration more; the second
\* buffer is never empty while the first is not.
C23_LoopTerminates ==
    /\ <>(at = "done")
    /\ [](/\ ~MetaLenEqual(e1_node, e2_node) => iters = 0
          /\ MetaLenEqual(e1_node, e2_node) =>
                /\ iters <= Len(e1_node.data) + 1
                /\ at \in {"fill", "test"} =>
                      iters <= Consumed(f1, e1_node) + 1
                /\ at = "test" => ~(Slice(f1) # <<>> /\ Slice(f2) = <<>>))
    /\ [][at = "test" =>
             \/ at' = "report"
             \/ /\ at' = "fill"
                /\ Len(f1'.rest) < Len(f1.rest)
                /\ Len(f2'.rest) < Len(f2.rest)]_vars

C23_Witness ==
    /\ at = "done"
    /\ same_content = "same"
    /\ Len(e1_node.data) = MaxLen
    /\ iters = MaxLen + 1

====
